---- MODULE Spec2Model ----
(***************************************************************************)
(* Model of src/src/lib/redux/src/handler.js: the REST resource Handler    *)
(* (archive registration, the four thunk action creators, the query        *)
(* helpers) and its reducer, mounted in a Redux-style store.               *)
(*                                                                         *)
(* JavaScript values are tagged records so that === is plain equality:     *)
(* a string is a sequence of one-character strings, a number a natural.    *)
(* An operation that can throw returns a record with a `threw' field.      *)
(***************************************************************************)
EXTENDS Integers, Sequences, FiniteSets, Bags, TLC

VARIABLES
    state,      \* the substate the store holds for this handler's reducer
    archives,   \* this.archives: archive key -> registered query spec
    tempId,     \* this.tempId
    requests,   \* bag of requests issued by this.fetch and not yet settled
    createLog,  \* history: ids carried by the createStart actions, in order
    fetched,    \* history: ids of the latest archiveSuccess results, per key
    delivered,  \* history: latest entity a Success action carried, per id
    rethrow,    \* this.rethrow
    last,       \* history: the latest step of the handler, as its caller saw it
    otherType,  \* options.type of a second handler mounted in the store
    other       \* the substate the store holds for the second handler

vars == <<state, archives, tempId, requests, createLog, fetched, delivered,
          rethrow, last, otherType, other>>

----------------------------------------------------------------------------
(* Bounds of the model.                                                    *)

MaxResults == 2     \* longest result list an archive request returns
MaxCreates == 2     \* createSingle invocations explored
MaxInflight == 2    \* requests in flight at once

----------------------------------------------------------------------------
(* JavaScript values.                                                      *)

Undefined == [t |-> "undefined", n |-> 0, s |-> << >>]
False == [t |-> "boolean", n |-> 0, s |-> << >>]
Num(n) == [t |-> "number", n |-> n, s |-> << >>]
Str(s) == [t |-> "string", n |-> 0, s |-> s]

DigitChars == <<"0", "1", "2", "3", "4", "5", "6", "7", "8", "9">>

\* Number::toString for a natural number: its decimal digits.
RECURSIVE NumberToString(_)
NumberToString(n) ==
    IF n < 10 THEN <<DigitChars[n + 1]>>
    ELSE NumberToString(n \div 10) \o <<DigitChars[(n % 10) + 1]>>

\* String.prototype.indexOf( sub ): first 0-based position of sub, or -1.
StringIndexOf(s, sub) ==
    LET hits == {i \in 0..(Len(s) - Len(sub)) :
                    SubSeq(s, i + 1, i + Len(sub)) = sub}
    IN IF hits = {} THEN -1
       ELSE CHOOSE i \in hits : \A j \in hits : i <= j

\* Array.prototype.indexOf( v ): first 0-based position of v (===), or -1.
ArrayIndexOf(arr, v) ==
    LET hits == {i \in 1..Len(arr) : arr[i] = v}
    IN IF hits = {} THEN -1
       ELSE (CHOOSE i \in hits : \A j \in hits : i <= j) - 1

\* Array.prototype.map( post => post.id ).
MapId(arr) == [i \in 1..Len(arr) |-> arr[i].id]

\* The property name an object key is converted to.
PropertyKey(v) == IF v.t = "number" THEN NumberToString(v.n) ELSE v.s

----------------------------------------------------------------------------
(* The values the environment supplies.                                    *)

TMP_PREFIX == <<"_", "t", "m", "p", "_">>

ArchiveKeys == {Str(<<"a">>), Str(<<"b">>)}
PostIds == {Num(1), Num(2)}
\* The entities the server answers with: post 1 in two revisions, post 2.
Entities ==
    {[id |-> Num(1), rev |-> 1], [id |-> Num(1), rev |-> 2],
     [id |-> Num(2), rev |-> 1]}
NoData == [id |-> Undefined, rev |-> 0]
\* The result lists of an archive request: no entity twice, but two
\* revisions of one post may both be listed.
ResultLists ==
    {l \in UNION {[1..n -> Entities] : n \in 0..MaxResults} :
        \A i, j \in 1..Len(l) : l[i] = l[j] => i = j}
QuerySpecs == {"object", "function"}

----------------------------------------------------------------------------
(* Substate.                                                               *)

NoArchive == [set |-> FALSE, ids |-> << >>]
EmptyArchives == [k \in {PropertyKey(a) : a \in ArchiveKeys} |-> NoArchive]

DEFAULT_STATE ==
    [archives       |-> [kind |-> "object", map |-> EmptyArchives],
     loadingPost    |-> False,
     loadingArchive |-> False,
     posts          |-> [kind |-> "object", items |-> << >>],
     saving         |-> False]

\* A substate handed to the store as preloaded state, without the two
\* collections: the case the `posts || []' and `! substate.posts' guards
\* of the reducer and of getArchive are written for.
PRELOADED_STATE ==
    [DEFAULT_STATE EXCEPT !.archives = [kind |-> "undefined", map |-> EmptyArchives],
                          !.posts = [kind |-> "undefined", items |-> << >>]]

----------------------------------------------------------------------------
(* Action types and action objects.                                        *)

\* String.prototype.toUpperCase, on the letters type names are written in.
LowerChars ==
    <<"a", "b", "c", "d", "e", "f", "g", "h", "i", "j", "k", "l", "m",
      "n", "o", "p", "q", "r", "s", "t", "u", "v", "w", "x", "y", "z">>
UpperChars ==
    <<"A", "B", "C", "D", "E", "F", "G", "H", "I", "J", "K", "L", "M",
      "N", "O", "P", "Q", "R", "S", "T", "U", "V", "W", "X", "Y", "Z">>

ToUpperCaseChar(c) ==
    IF \E i \in 1..Len(LowerChars) : LowerChars[i] = c
    THEN UpperChars[CHOOSE i \in 1..Len(LowerChars) : LowerChars[i] = c]
    ELSE c

ToUpperCase(s) == [i \in 1..Len(s) |-> ToUpperCaseChar(s[i])]

QUERY == <<"Q", "U", "E", "R", "Y">>
LOAD == <<"L", "O", "A", "D">>
UPDATE == <<"U", "P", "D", "A", "T", "E">>
CREATE == <<"C", "R", "E", "A", "T", "E">>
REQUEST_SUFFIX == <<"_", "R", "E", "Q", "U", "E", "S", "T">>
ERROR_SUFFIX == <<"_", "E", "R", "R", "O", "R">>

\* `${ verb }_${ upperType }${ suffix }`
Template(verb, upperType, suffix) == verb \o <<"_">> \o upperType \o suffix

\* this.actions of a handler constructed without overrides, from
\* upperType = options.type.toUpperCase().
ActionsFor(upperType) ==
    [archiveStart   |-> Template(QUERY, upperType, REQUEST_SUFFIX),
     archiveSuccess |-> Template(QUERY, upperType, << >>),
     archiveError   |-> Template(QUERY, upperType, ERROR_SUFFIX),
     getStart       |-> Template(LOAD, upperType, REQUEST_SUFFIX),
     getSuccess     |-> Template(LOAD, upperType, << >>),
     getError       |-> Template(LOAD, upperType, ERROR_SUFFIX),
     updateStart    |-> Template(UPDATE, upperType, REQUEST_SUFFIX),
     updateSuccess  |-> Template(UPDATE, upperType, << >>),
     updateError    |-> Template(UPDATE, upperType, ERROR_SUFFIX),
     createStart    |-> Template(CREATE, upperType, REQUEST_SUFFIX),
     createSuccess  |-> Template(CREATE, upperType, << >>),
     createError    |-> Template(CREATE, upperType, ERROR_SUFFIX)]

\* options.type of the handler, and the type names a second handler in
\* the same store is constructed with.
TYPE == <<"p", "o", "s", "t">>
OtherTypes ==
    {<<"p", "a", "g", "e">>,
     <<"u", "s", "e", "r">>,
     <<"P", "o", "s", "t">>,
     <<"p", "o", "s", "t", "_", "r", "e", "q", "u", "e", "s", "t">>}

\* No second handler is mounted.
NoType == << >>

\* this.actions of the handler: QUERY_POST_REQUEST, QUERY_POST, ...
actions == ActionsFor(ToUpperCase(TYPE))

\* An action type of some other part of the application.
FOREIGN_TYPE == <<"R", "E", "S", "E", "T">>

\* { type, id } / { type, id, results } / { type, id, data }
Action(type, id) == [type |-> type, id |-> id, results |-> << >>, data |-> NoData]
ResultsAction(type, id, results) ==
    [type |-> type, id |-> id, results |-> results, data |-> NoData]
DataAction(type, id, data) ==
    [type |-> type, id |-> id, results |-> << >>, data |-> data]

----------------------------------------------------------------------------
(* The reducer.                                                            *)

Returned(s) == [threw |-> FALSE, state |-> s]
\* A TypeError leaves the function without a value: the store keeps s.
Thrown(s) == [threw |-> TRUE, state |-> s]

Array(items) == [kind |-> "array", items |-> items]

\* ( posts || [] ): an absent posts is replaced, the object {} is truthy.
PostsOrEmpty(posts) == IF posts.kind = "undefined" THEN Array(<< >>) ELSE posts

\* posts.filter( post => ids.indexOf( post.id ) === -1 )
Deduplicated(items, ids) ==
    SelectSeq(items, LAMBDA post : ArrayIndexOf(ids, post.id) = -1)

\* posts.filter( post => post.id !== action.data.id )
Existing(items, data) == SelectSeq(items, LAMBDA post : post.id # data.id)

\* [ ...deduplicated, ...action.results ]
MergeResults(deduplicated, results) == deduplicated \o results

\* [ ...existing, action.data ]
\* Variant: the merge that leaves the delivered entity out.
MergeDataLeavesOut(existing, data) == existing

MergeData(existing, data) == Append(existing, data)

\* { ...state.archives, [ action.id ]: ids }
\* Variant: the archives object rebuilt without spreading state.archives.
SetArchiveAlone(archs, id, ids) ==
    [kind |-> "object",
     map |-> [EmptyArchives EXCEPT ![PropertyKey(id)] = [set |-> TRUE, ids |-> ids]]]

SetArchive(archs, id, ids) ==
    [kind |-> "object",
     map  |-> [archs.map EXCEPT ![PropertyKey(id)] = [set |-> TRUE, ids |-> ids]]]

\* The two Success branches that replace one entity share their body.
ReplaceEntity(s, flag, action) ==
    LET posts == PostsOrEmpty(s.posts)
    IN IF posts.kind # "array" THEN Thrown(s)   \* {}.filter is not a function
       ELSE Returned([s EXCEPT
                ![flag] = False,
                !.posts = Array(MergeData(Existing(posts.items, action.data),
                                          action.data))])

\* The reducer of a handler whose this.actions is acts.
reducerOf(acts, s, action) ==
    CASE action.type = acts.archiveStart ->
            Returned([s EXCEPT !.loadingArchive = action.id])
      [] action.type = acts.archiveSuccess ->
            LET posts == PostsOrEmpty(s.posts)
                ids == MapId(action.results)
            IN IF posts.kind # "array" THEN Thrown(s)
               ELSE Returned([s EXCEPT
                        !.loadingArchive = False,
                        !.archives = SetArchive(s.archives, action.id, ids),
                        !.posts = Array(MergeResults(
                                    Deduplicated(posts.items, ids),
                                    action.results))])
      [] action.type = acts.archiveError ->
            Returned([s EXCEPT !.loadingArchive = False])
      [] action.type = acts.getStart ->
            Returned([s EXCEPT !.loadingPost = action.id])
      [] action.type = acts.getSuccess ->
            ReplaceEntity(s, "loadingPost", action)
      [] action.type = acts.getError ->
            Returned([s EXCEPT !.loadingPost = False])
      [] action.type \in {acts.createStart, acts.updateStart} ->
            Returned([s EXCEPT !.saving = action.id])
      [] action.type \in {acts.createSuccess, acts.updateSuccess} ->
            ReplaceEntity(s, "saving", action)
      [] action.type \in {acts.createError, acts.updateError} ->
            Returned([s EXCEPT !.saving = False])
      [] OTHER -> Returned(s)

\* The reducer of the handler.
reducer(s, action) == reducerOf(actions, s, action)

\* store.dispatch( action ): the substate after the reducer ran; a reducer
\* that throws leaves the store's state as it was.
Dispatch(s, action) == reducer(s, action).state

----------------------------------------------------------------------------
(* The query helpers.  Each returns [threw, kind, ...]: kind names the     *)
(* JavaScript value handed back.                                           *)

\* substate.<name> of a field the substate may not have.
Field(substate, name) ==
    IF name \in DOMAIN substate THEN substate[name] ELSE Undefined

isArchiveLoading(substate, id) == substate.loadingArchive = id

getArchive(substate, id) ==
    IF substate.archives.kind = "undefined" \/ substate.posts.kind = "undefined"
    THEN [threw |-> FALSE, kind |-> "null", items |-> << >>]
    ELSE LET entry == substate.archives.map[PropertyKey(id)]
         IN IF ~entry.set
            THEN [threw |-> FALSE, kind |-> "null", items |-> << >>]
            ELSE IF substate.posts.kind # "array"
            THEN [threw |-> TRUE, kind |-> "TypeError", items |-> << >>]
            ELSE [threw |-> FALSE, kind |-> "array",
                  items |-> SelectSeq(substate.posts.items,
                              LAMBDA app : ArrayIndexOf(entry.ids, app.id) >= 0)]

isPostLoading(substate, id) == Field(substate, "loadingSingle") = id

getSingle(substate, id) ==
    IF substate.posts.kind = "undefined"
    THEN [threw |-> FALSE, kind |-> "null", post |-> NoData]
    ELSE IF substate.posts.kind # "array"
    THEN [threw |-> TRUE, kind |-> "TypeError", post |-> NoData]
    ELSE LET hits == SelectSeq(substate.posts.items, LAMBDA post : post.id = id)
         IN IF hits = << >>
            THEN [threw |-> FALSE, kind |-> "undefined", post |-> NoData]
            ELSE [threw |-> FALSE, kind |-> "object", post |-> Head(hits)]

isPostSaving(substate, id) == substate.saving = id

isPostCreating(substate) ==
    IF substate.saving.t # "string"
    THEN [threw |-> TRUE, value |-> FALSE]   \* saving.indexOf is not a function
    ELSE [threw |-> FALSE,
          value |-> StringIndexOf(substate.saving.s, TMP_PREFIX) = 0]

----------------------------------------------------------------------------
(* History kept beside the program, for stating the properties.            *)

NotDelivered == [some |-> FALSE, post |-> NoData]

\* The entities a Success action carries, in order.  The history records
\* the Success actions the reducer applied: one it threw on changed nothing.
Payload(action) ==
    IF action.type = actions.archiveSuccess THEN action.results
    ELSE IF action.type \in {actions.getSuccess, actions.createSuccess,
                             actions.updateSuccess}
    THEN <<action.data>>
    ELSE << >>

FetchedAfter(f, s, action) ==
    IF action.type = actions.archiveSuccess /\ ~reducer(s, action).threw
    THEN [f EXCEPT ![action.id] = [set |-> TRUE, ids |-> MapId(action.results)]]
    ELSE f

DeliveredAfter(d, s, action) ==
    LET list == IF reducer(s, action).threw THEN << >> ELSE Payload(action)
        at(i) == {n \in 1..Len(list) : list[n].id = i}
    IN [i \in PostIds |->
            IF at(i) = {} THEN d[i]
            ELSE [some |-> TRUE,
                  post |-> list[CHOOSE n \in at(i) : \A m \in at(i) : m <= n]]]

----------------------------------------------------------------------------
(* The handler and the store.                                              *)

\* What a thunk step of the handler looked like from outside ( NoStep
\* after a step that is no thunk's ): the operation and
\* its id, what the thunk handed its caller ( "threw", "promise",
\* "undefined" ), how the promise chain the thunk built has settled, the
\* value it settled with, and the actions the invocation has dispatched.
Step(step, op, id, returned, settled, value, dispatched) ==
    [step |-> step, op |-> op, id |-> id, returned |-> returned,
     settled |-> settled, value |-> value, dispatched |-> dispatched]

NoStep == Step("none", "none", Undefined, "none", "none", Undefined, << >>)

\* The error a failed request, or a dispatch that threw, carries.
ErrorValue == [t |-> "error", n |-> 0, s |-> << >>]

\* An action as an observer of dispatch sees it.
Logged(action) == [type |-> action.type, id |-> action.id]

\* The handler as constructed, and the store created with its reducer:
\* reducer( undefined, ... ) starts from DEFAULT_STATE.
Init ==
    /\ state = DEFAULT_STATE
    /\ archives = [k \in {PropertyKey(a) : a \in ArchiveKeys} |-> "none"]
    /\ tempId = 0
    /\ requests = EmptyBag
    /\ createLog = << >>
    /\ fetched = [k \in ArchiveKeys |-> NoArchive]
    /\ delivered = [i \in PostIds |-> NotDelivered]
    /\ rethrow \in BOOLEAN
    /\ last = NoStep
    /\ otherType = NoType
    /\ other = DEFAULT_STATE

\* The Start action type of each operation.
StartType(op) ==
    CASE op = "fetchArchive" -> actions.archiveStart
      [] op = "fetchSingle" -> actions.getStart
      [] op = "updateSingle" -> actions.updateStart
      [] op = "createSingle" -> actions.createStart

\* The Success and Error action types of each operation.
SuccessType(op) ==
    CASE op = "fetchArchive" -> actions.archiveSuccess
      [] op = "fetchSingle" -> actions.getSuccess
      [] op = "updateSingle" -> actions.updateSuccess
      [] op = "createSingle" -> actions.createSuccess

ErrorType(op) ==
    CASE op = "fetchArchive" -> actions.archiveError
      [] op = "fetchSingle" -> actions.getError
      [] op = "updateSingle" -> actions.updateError
      [] op = "createSingle" -> actions.createError

\* What the thunk hands its caller: fetchArchive builds its promise chain
\* without returning it, the other three return theirs.
ThunkReturns(op) == IF op = "fetchArchive" THEN "undefined" ELSE "promise"

\* A request in flight, with the actions its invocation dispatched so far.
Request(op, id) ==
    [op |-> op, id |-> id, log |-> <<Logged(Action(StartType(op), id))>>]
Pending(op) == {r \in BagToSet(requests) : r.op = op}
Issue(r) == requests (+) SetToBag({r})
Settled(r) == requests (-) SetToBag({r})
CanIssue == BagCardinality(requests) < MaxInflight

\* '_tmp_' + n
TempIdString(n) == Str(TMP_PREFIX \o NumberToString(n))

\* Variant: a counter that is read but not advanced.
IncrementedNot(n) == n

\* this.tempId++ : the counter after the post-increment.
Incremented(n) == n + 1

\* .then( dispatch Success ).catch( dispatch Error ): a request that was
\* fulfilled dispatches the Success action, and the Error action too when
\* that dispatch throws.
Fulfilled(s, success, error) ==
    IF reducer(s, success).threw THEN Dispatch(s, error)
    ELSE Dispatch(s, success)

\* A request that was rejected dispatches the Error action.
Rejected(s, error) == Dispatch(s, error)

\* The thunk was called: it dispatched its Start action and issued a
\* request.
Called(r) ==
    Step("call", r.op, r.id, ThunkReturns(r.op), "pending", Undefined, r.log)

\* The thunk threw to its caller, having dispatched `dispatched`.
Threw(op, id, dispatched) ==
    Step("call", op, id, "threw", "none", ErrorValue, dispatched)

\* if ( this.rethrow ) { throw error; } : the .catch callback rejects the
\* chain with the error, or returns undefined.
Caught(r, dispatched) ==
    IF rethrow
    THEN Step("settle", r.op, r.id, ThunkReturns(r.op), "rejected", ErrorValue,
              r.log \o dispatched)
    ELSE Step("settle", r.op, r.id, ThunkReturns(r.op), "fulfilled", Undefined,
              r.log \o dispatched)

\* The chain of a fulfilled request: the .then callback dispatches the
\* Success action and returns `value`; when the dispatch throws, the
\* .catch callback runs instead.
ThenStep(r, s, success, error, value) ==
    IF reducer(s, success).threw
    THEN Caught(r, <<Logged(success), Logged(error)>>)
    ELSE Step("settle", r.op, r.id, ThunkReturns(r.op), "fulfilled", value,
              r.log \o <<Logged(success)>>)

\* The chain of a rejected request: the .catch callback.
CatchStep(r, error) == Caught(r, <<Logged(error)>>)

\* Variant: every key passes for registered.
RegisteredAlways(id) == TRUE

\* id in this.archives
Registered(id) == archives[PropertyKey(id)] # "none"

registerArchive(id, query) ==
    /\ archives' = [archives EXCEPT ![PropertyKey(id)] = query]
    /\ last' = NoStep
    /\ UNCHANGED <<state, tempId, requests, createLog, fetched, delivered,
                   rethrow, otherType, other>>

\* fetchArchive( id ) of a key that is not in this.archives throws.
fetchArchiveInvalid(id) ==
    /\ ~Registered(id)
    /\ last' = Threw("fetchArchive", id, << >>)
    /\ UNCHANGED <<state, archives, tempId, requests, createLog, fetched,
                   delivered, rethrow, otherType, other>>

\* The registered query is a function and throws when it is called with
\* the state: archiveStart was dispatched, no request is issued.
fetchArchiveQueryThrows(id) ==
    LET start == Action(actions.archiveStart, id)
    IN /\ Registered(id)
       /\ archives[PropertyKey(id)] = "function"
       /\ state' = Dispatch(state, start)
       /\ last' = Threw("fetchArchive", id, <<Logged(start)>>)
       /\ UNCHANGED <<archives, tempId, requests, createLog, fetched,
                      delivered, rethrow, otherType, other>>

fetchArchive(id) ==
    /\ Registered(id)
    /\ CanIssue
    /\ state' = Dispatch(state, Action(actions.archiveStart, id))
    /\ requests' = Issue(Request("fetchArchive", id))
    /\ last' = Called(Request("fetchArchive", id))
    /\ UNCHANGED <<archives, tempId, createLog, fetched, delivered, rethrow, otherType, other>>

fetchArchiveFulfilled(r, results) ==
    LET success == ResultsAction(actions.archiveSuccess, r.id, results)
        error == Action(actions.archiveError, r.id)
    IN /\ r.op = "fetchArchive" /\ BagIn(r, requests)
       /\ state' = Fulfilled(state, success, error)
       /\ requests' = Settled(r)
       /\ fetched' = FetchedAfter(fetched, state, success)
       /\ delivered' = DeliveredAfter(delivered, state, success)
       /\ last' = ThenStep(r, state, success, error, r.id)
       /\ UNCHANGED <<archives, tempId, createLog, rethrow, otherType, other>>

fetchArchiveRejected(r) ==
    /\ r.op = "fetchArchive" /\ BagIn(r, requests)
    /\ state' = Rejected(state, Action(actions.archiveError, r.id))
    /\ requests' = Settled(r)
    /\ last' = CatchStep(r, Action(actions.archiveError, r.id))
    /\ UNCHANGED <<archives, tempId, createLog, fetched, delivered, rethrow, otherType, other>>

fetchSingle(id) ==
    /\ CanIssue
    /\ state' = Dispatch(state, Action(actions.getStart, id))
    /\ requests' = Issue(Request("fetchSingle", id))
    /\ last' = Called(Request("fetchSingle", id))
    /\ UNCHANGED <<archives, tempId, createLog, fetched, delivered, rethrow, otherType, other>>

fetchSingleFulfilled(r, data) ==
    LET success == DataAction(actions.getSuccess, r.id, data)
        error == Action(actions.getError, r.id)
    IN /\ r.op = "fetchSingle" /\ BagIn(r, requests)
       /\ state' = Fulfilled(state, success, error)
       /\ requests' = Settled(r)
       /\ delivered' = DeliveredAfter(delivered, state, success)
       /\ last' = ThenStep(r, state, success, error, r.id)
       /\ UNCHANGED <<archives, tempId, createLog, fetched, rethrow, otherType, other>>

fetchSingleRejected(r) ==
    /\ r.op = "fetchSingle" /\ BagIn(r, requests)
    /\ state' = Rejected(state, Action(actions.getError, r.id))
    /\ requests' = Settled(r)
    /\ last' = CatchStep(r, Action(actions.getError, r.id))
    /\ UNCHANGED <<archives, tempId, createLog, fetched, delivered, rethrow, otherType, other>>

\* ! id
Falsy(v) ==
    \/ v.t = "undefined"
    \/ v.t = "boolean" /\ v.n = 0
    \/ v.t = "number" /\ v.n = 0
    \/ v.t = "string" /\ v.s = << >>

\* updateSingle( data ) of data without an id throws.
updateSingleInvalid(data) ==
    /\ Falsy(data.id)
    /\ last' = Threw("updateSingle", data.id, << >>)
    /\ UNCHANGED <<state, archives, tempId, requests, createLog, fetched,
                   delivered, rethrow, otherType, other>>

updateSingle(data) ==
    /\ ~Falsy(data.id)
    /\ CanIssue
    /\ state' = Dispatch(state, Action(actions.updateStart, data.id))
    /\ requests' = Issue(Request("updateSingle", data.id))
    /\ last' = Called(Request("updateSingle", data.id))
    /\ UNCHANGED <<archives, tempId, createLog, fetched, delivered, rethrow, otherType, other>>

updateSingleFulfilled(r, data) ==
    LET success == DataAction(actions.updateSuccess, r.id, data)
        error == Action(actions.updateError, r.id)
    IN /\ r.op = "updateSingle" /\ BagIn(r, requests)
       /\ state' = Fulfilled(state, success, error)
       /\ requests' = Settled(r)
       /\ delivered' = DeliveredAfter(delivered, state, success)
       /\ last' = ThenStep(r, state, success, error, r.id)
       /\ UNCHANGED <<archives, tempId, createLog, fetched, rethrow, otherType, other>>

updateSingleRejected(r) ==
    /\ r.op = "updateSingle" /\ BagIn(r, requests)
    /\ state' = Rejected(state, Action(actions.updateError, r.id))
    /\ requests' = Settled(r)
    /\ last' = CatchStep(r, Action(actions.updateError, r.id))
    /\ UNCHANGED <<archives, tempId, createLog, fetched, delivered, rethrow, otherType, other>>

createSingle ==
    LET id == TempIdString(tempId)
    IN /\ tempId < MaxCreates
       /\ CanIssue
       /\ tempId' = Incremented(tempId)
       /\ state' = Dispatch(state, Action(actions.createStart, id))
       /\ createLog' = Append(createLog, id)
       /\ requests' = Issue(Request("createSingle", id))
       /\ last' = Called(Request("createSingle", id))
       /\ UNCHANGED <<archives, fetched, delivered, rethrow, otherType, other>>

\* The .then callback of createSingle returns data.id.
createSingleFulfilled(r, data) ==
    LET success == DataAction(actions.createSuccess, r.id, data)
        error == Action(actions.createError, r.id)
    IN /\ r.op = "createSingle" /\ BagIn(r, requests)
       /\ state' = Fulfilled(state, success, error)
       /\ requests' = Settled(r)
       /\ delivered' = DeliveredAfter(delivered, state, success)
       /\ last' = ThenStep(r, state, success, error, data.id)
       /\ UNCHANGED <<archives, tempId, createLog, fetched, rethrow, otherType, other>>

createSingleRejected(r) ==
    /\ r.op = "createSingle" /\ BagIn(r, requests)
    /\ state' = Rejected(state, Action(actions.createError, r.id))
    /\ requests' = Settled(r)
    /\ last' = CatchStep(r, Action(actions.createError, r.id))
    /\ UNCHANGED <<archives, tempId, createLog, fetched, delivered, rethrow, otherType, other>>

\* What the server answers a request about one entity with: that entity.
Answers(id) == {e \in Entities : e.id = id}

Next ==
    \/ \E id \in ArchiveKeys, query \in QuerySpecs : registerArchive(id, query)
    \/ \E id \in ArchiveKeys : fetchArchiveInvalid(id)
    \/ \E id \in ArchiveKeys : fetchArchiveQueryThrows(id)
    \/ \E id \in ArchiveKeys : fetchArchive(id)
    \/ \E r \in Pending("fetchArchive"), results \in ResultLists :
            fetchArchiveFulfilled(r, results)
    \/ \E r \in Pending("fetchArchive") : fetchArchiveRejected(r)
    \/ \E id \in PostIds : fetchSingle(id)
    \/ \E r \in Pending("fetchSingle") : \E data \in Answers(r.id) :
            fetchSingleFulfilled(r, data)
    \/ \E r \in Pending("fetchSingle") : fetchSingleRejected(r)
    \/ updateSingleInvalid(NoData)
    \/ \E data \in Entities : updateSingle(data)
    \/ \E r \in Pending("updateSingle") : \E data \in Answers(r.id) :
            updateSingleFulfilled(r, data)
    \/ \E r \in Pending("updateSingle") : updateSingleRejected(r)
    \/ createSingle
    \/ \E r \in Pending("createSingle"), data \in Entities :
            createSingleFulfilled(r, data)
    \/ \E r \in Pending("createSingle") : createSingleRejected(r)

\* The request r fails / is answered with some data.
RequestRejected(r) ==
    \/ fetchArchiveRejected(r)
    \/ fetchSingleRejected(r)
    \/ updateSingleRejected(r)
    \/ createSingleRejected(r)

RequestFulfilled(r) ==
    \/ \E results \in ResultLists : fetchArchiveFulfilled(r, results)
    \/ \E data \in Entities : fetchSingleFulfilled(r, data)
    \/ \E data \in Entities : updateSingleFulfilled(r, data)
    \/ \E data \in Entities : createSingleFulfilled(r, data)

Spec == Init /\ [][Next]_vars

----------------------------------------------------------------------------
(* The reducer alone, under any sequence of actions reaching the store.    *)

Reduce(action) ==
    /\ state' = Dispatch(state, action)
    /\ fetched' = FetchedAfter(fetched, state, action)
    /\ delivered' = DeliveredAfter(delivered, state, action)
    /\ UNCHANGED <<archives, tempId, requests, createLog, rethrow, last, otherType,
                   other>>

ReducerNext ==
    \/ \E id \in ArchiveKeys : Reduce(Action(actions.archiveStart, id))
    \/ \E id \in ArchiveKeys, results \in ResultLists :
            Reduce(ResultsAction(actions.archiveSuccess, id, results))
    \/ \E id \in ArchiveKeys : Reduce(Action(actions.archiveError, id))
    \/ \E id \in PostIds : Reduce(Action(actions.getStart, id))
    \/ \E data \in Entities :
            Reduce(DataAction(actions.getSuccess, data.id, data))
    \/ \E id \in PostIds : Reduce(Action(actions.getError, id))
    \/ \E id \in PostIds : Reduce(Action(actions.updateStart, id))
    \/ \E data \in Entities :
            Reduce(DataAction(actions.updateSuccess, data.id, data))
    \/ \E id \in PostIds : Reduce(Action(actions.updateError, id))
    \/ Reduce(Action(actions.createStart, TempIdString(0)))
    \/ \E data \in Entities :
            Reduce(DataAction(actions.createSuccess, TempIdString(0), data))
    \/ Reduce(Action(actions.createError, TempIdString(0)))
    \/ Reduce(Action(FOREIGN_TYPE, Undefined))

\* The reducer is handed the store's state: DEFAULT_STATE, or a substate
\* the store was preloaded with.
InitReducer ==
    /\ state \in {DEFAULT_STATE, PRELOADED_STATE}
    /\ archives = [k \in {PropertyKey(a) : a \in ArchiveKeys} |-> "none"]
    /\ tempId = 0
    /\ requests = EmptyBag
    /\ createLog = << >>
    /\ fetched = [k \in ArchiveKeys |-> NoArchive]
    /\ delivered = [i \in PostIds |-> NotDelivered]
    /\ rethrow = TRUE
    /\ last = NoStep
    /\ otherType = NoType
    /\ other = DEFAULT_STATE

SpecReducer == InitReducer /\ [][ReducerNext]_vars

----------------------------------------------------------------------------
(* Two handlers in one store: every action the first dispatches runs       *)
(* through both reducers.                                                  *)

\* this.actions of the second handler.
otherActions == ActionsFor(ToUpperCase(otherType))

\* The action objects the first handler dispatches.
StartActions ==
    {Action(actions.archiveStart, k) : k \in ArchiveKeys}
    \cup {Action(type, i) : type \in {actions.getStart, actions.updateStart},
                            i \in PostIds}
    \cup {Action(actions.createStart, TempIdString(0))}

ErrorActions ==
    {Action(actions.archiveError, k) : k \in ArchiveKeys}
    \cup {Action(type, i) : type \in {actions.getError, actions.updateError},
                            i \in PostIds}
    \cup {Action(actions.createError, TempIdString(0))}

SuccessActions ==
    {ResultsAction(actions.archiveSuccess, k, l) : k \in ArchiveKeys, l \in ResultLists}
    \cup {DataAction(type, e.id, e) :
            type \in {actions.getSuccess, actions.updateSuccess}, e \in Entities}
    \cup {DataAction(actions.createSuccess, TempIdString(0), e) : e \in Entities}

\* combineReducers: the store hands the action to each mounted reducer.
Mounted(action) ==
    /\ state' = Dispatch(state, action)
    /\ other' = reducerOf(otherActions, other, action).state
    /\ UNCHANGED <<archives, tempId, requests, createLog, fetched, delivered,
                   rethrow, last, otherType>>

TypesNext ==
    \/ \E action \in StartActions : Mounted(action)
    \/ \E action \in SuccessActions : Mounted(action)
    \/ \E action \in ErrorActions : Mounted(action)

InitTypes ==
    /\ state = DEFAULT_STATE
    /\ archives = [k \in {PropertyKey(a) : a \in ArchiveKeys} |-> "none"]
    /\ tempId = 0
    /\ requests = EmptyBag
    /\ createLog = << >>
    /\ fetched = [k \in ArchiveKeys |-> NoArchive]
    /\ delivered = [i \in PostIds |-> NotDelivered]
    /\ rethrow = TRUE
    /\ last = NoStep
    /\ otherType \in OtherTypes
    /\ other = DEFAULT_STATE

SpecTypes == InitTypes /\ [][TypesNext]_vars

----------------------------------------------------------------------------
(* Properties.                                                             *)

Range(seq) == {seq[i] : i \in 1..Len(seq)}

\* The posts list as a sequence ( empty while it holds no array ).
PostItems(s) == IF s.posts.kind = "array" THEN s.posts.items ELSE << >>

\* The id list stored for an archive ( empty while none is stored ).
ArchiveIds(s, id) ==
    IF s.archives.kind = "object" /\ s.archives.map[PropertyKey(id)].set
    THEN s.archives.map[PropertyKey(id)].ids
    ELSE << >>

DigitValue(c) == (CHOOSE i \in 1..10 : DigitChars[i] = c) - 1

RECURSIVE ParseDecimal(_)
ParseDecimal(s) ==
    IF s = << >> THEN 0
    ELSE ParseDecimal(SubSeq(s, 1, Len(s) - 1)) * 10 + DigitValue(s[Len(s)])

HasTmpPrefix(v) ==
    /\ v.t = "string"
    /\ Len(v.s) > Len(TMP_PREFIX)
    /\ SubSeq(v.s, 1, Len(TMP_PREFIX)) = TMP_PREFIX

\* The numeric suffix of a temporary id.
TempNumber(v) == ParseDecimal(SubSeq(v.s, Len(TMP_PREFIX) + 1, Len(v.s)))

----------------------------------------------------------------------------
\* C1: after any sequence of handled actions the posts list holds at most
\* one entity per id, whatever result list an archiveSuccess carried; and so
\* no archive read returns two entities with one id.
C1_PostsUniqueById ==
    /\ \A i, j \in 1..Len(PostItems(state)) :
            PostItems(state)[i].id = PostItems(state)[j].id => i = j
    /\ \A k \in ArchiveKeys :
            LET got == getArchive(state, k)
            IN got.kind = "array" =>
                    \A i, j \in 1..Len(got.items) :
                        got.items[i].id = got.items[j].id => i = j

----------------------------------------------------------------------------
\* C2: from the default substate, with an archive registered, when the
\* request of fetchArchive( id ) is answered with a result list R, the
\* substate has loadingArchive false, archives[ id ] the ids of R in order,
\* and posts holding every entity of R.
C2_FetchArchiveFromDefault ==
    [][\A k \in ArchiveKeys : \A R \in ResultLists :
            ( /\ state = Dispatch(DEFAULT_STATE, Action(actions.archiveStart, k))
              /\ fetchArchiveFulfilled(Request("fetchArchive", k), R) )
            => ( /\ state'.loadingArchive = False
                 /\ state'.archives.kind = "object"
                 /\ state'.archives.map[PropertyKey(k)] = [set |-> TRUE, ids |-> MapId(R)]
                 /\ Range(R) \subseteq Range(PostItems(state')) )]_vars

----------------------------------------------------------------------------
----------------------------------------------------------------------------
\* C4: every id in any archive's stored list is the id of an entity in
\* posts.
C4_ArchiveIdsInPosts ==
    \A k \in ArchiveKeys :
        \A id \in Range(ArchiveIds(state, k)) :
            \E post \in Range(PostItems(state)) : post.id = id

\* An archive lists two ids, and a later single-post action has replaced
\* the entity of the first of them ( it now sits behind the second ).
C4_Witness ==
    \E k \in ArchiveKeys :
        /\ Len(ArchiveIds(state, k)) = 2
        /\ ArchiveIds(state, k)[1] # ArchiveIds(state, k)[2]
        /\ Len(PostItems(state)) = 2
        /\ PostItems(state)[1].id = ArchiveIds(state, k)[2]
        /\ PostItems(state)[2].id = ArchiveIds(state, k)[1]
        /\ delivered[PostItems(state)[2].id].post = PostItems(state)[2]

----------------------------------------------------------------------------
\* C5: createSingle( data ) leaves saving equal to the temporary id it
\* generated; when its request is answered with an entity, saving is false
\* and the entity is in posts; and no entity of posts ever carries a
\* temporary id.
C5_CreateSingle ==
    /\ [](\A i \in 1..Len(PostItems(state)) : ~HasTmpPrefix(PostItems(state)[i].id))
    /\ [][ /\ createSingle => state'.saving = TempIdString(tempId)
           /\ \A r \in Pending("createSingle") : \A data \in Entities :
                createSingleFulfilled(r, data)
                => ( /\ state'.saving = False
                     /\ data \in Range(PostItems(state')) ) ]_vars

----------------------------------------------------------------------------
\* C6: isPostCreating( substate ) answers, and answers true exactly when
\* saving holds a temporary id ( a string starting with '_tmp_' ).
C6_IsPostCreating ==
    /\ ~isPostCreating(state).threw
    /\ isPostCreating(state).value <=> HasTmpPrefix(state.saving)

----------------------------------------------------------------------------
\* C7: isPostLoading( substate, id ) is true exactly while a getStart for
\* id is the last single-post load action applied, that is while the
\* substate's loadingPost is id.
C7_IsPostLoading ==
    \A id \in PostIds : isPostLoading(state, id) <=> state.loadingPost = id

----------------------------------------------------------------------------
\* C8: getSingle( substate, id ) returns the entity most recently
\* delivered for id, and an absent result ( never an error ) when none was,
\* the default substate included.
C8_GetSingle ==
    \A id \in PostIds :
        LET got == getSingle(state, id)
        IN /\ ~got.threw
           /\ delivered[id].some => got.kind = "object" /\ got.post = delivered[id].post
           /\ ~delivered[id].some => got.kind \in {"null", "undefined"}

----------------------------------------------------------------------------
\* C9: for every Success action a, the reducer returns on the substate
\* and on its own result, and reducer( reducer( s, a ), a ) is the substate
\* reducer( s, a ): the same posts, archives and flags.
C9_ReplayIdempotent ==
    \A a \in SuccessActions :
        LET once == reducer(state, a)
            twice == reducer(once.state, a)
        IN /\ ~once.threw
           /\ ~twice.threw
           /\ twice.state = once.state

----------------------------------------------------------------------------
\* C10: the temporary ids createSingle hands out are pairwise distinct,
\* their numeric suffixes strictly increase in call order, and the counter
\* stays above every suffix handed out ( never decremented or reset ).
C10_TempIds ==
    /\ \A i \in 1..Len(createLog) :
            /\ HasTmpPrefix(createLog[i])
            /\ TempNumber(createLog[i]) < tempId
    /\ \A i, j \in 1..Len(createLog) :
            i < j => /\ createLog[i] # createLog[j]
                     /\ TempNumber(createLog[i]) < TempNumber(createLog[j])

\* Two creations are in flight at once, each under its own temporary id.
C10_Witness ==
    /\ Len(createLog) >= 2
    /\ BagCardinality(requests) >= 2
    /\ \A r \in BagToSet(requests) : r.op = "createSingle"

----------------------------------------------------------------------------
FlagOf(op) ==
    CASE op = "fetchArchive" -> "loadingArchive"
      [] op = "fetchSingle" -> "loadingPost"
      [] op \in {"updateSingle", "createSingle"} -> "saving"

----------------------------------------------------------------------------
\* C12: when the request of any of the four operations fails, the matching
\* Error action with the operation's id is dispatched and the flag reset,
\* and then the promise the caller holds is rejected with the error when
\* rethrow is set, and fulfilled when it is not.
C12_FailurePropagation ==
    [][ \A r \in BagToSet(requests) :
            RequestRejected(r)
            => ( /\ last'.dispatched =
                        r.log \o <<Logged(Action(ErrorType(r.op), r.id))>>
                 /\ state'[FlagOf(r.op)] = False
                 /\ last'.returned = "promise"
                 /\ rethrow => ( last'.settled = "rejected"
                                 /\ last'.value = ErrorValue )
                 /\ ~rethrow => last'.settled = "fulfilled" ) ]_vars

\* The caller holds a promise, fulfilled with `value` after the Success
\* action of request r was dispatched.
ResolvedWith(step, r, value) ==
    /\ step.returned = "promise"
    /\ step.settled = "fulfilled"
    /\ step.value = value
    /\ step.dispatched[Len(step.dispatched)].type = SuccessType(r.op)

----------------------------------------------------------------------------
\* C13: when its request is answered, each of the four thunks has handed
\* its caller a promise that is fulfilled, after the Success action was
\* dispatched, with the archive key ( fetchArchive ), the entity id
\* ( fetchSingle, updateSingle ) or the id the server assigned
\* ( createSingle ).
C13_ResolvesWithId ==
    [][ \A r \in BagToSet(requests) :
          /\ \A results \in ResultLists :
                fetchArchiveFulfilled(r, results) => ResolvedWith(last', r, r.id)
          /\ \A data \in Entities :
                /\ fetchSingleFulfilled(r, data) => ResolvedWith(last', r, r.id)
                /\ updateSingleFulfilled(r, data) => ResolvedWith(last', r, r.id)
                /\ createSingleFulfilled(r, data) => ResolvedWith(last', r, data.id)
      ]_vars

\* The fetchArchive requests in flight.
ArchivesInFlight(reqs) ==
    BagCardinality([r \in {q \in BagToSet(reqs) : q.op = "fetchArchive"} |-> reqs[r]])

----------------------------------------------------------------------------
\* C14: with two or more fetchArchive requests in flight, one that is
\* answered with a result list R is applied to its own key: archives holds
\* the ids of R under that key and posts holds every entity of R, once per
\* id; when it was the last one in flight loadingArchive is false; and
\* loadingArchive only ever changes to the key of the fetchArchive being
\* started or to false.
C14_ConcurrentArchives ==
    [][ /\ \A r \in BagToSet(requests) : \A R \in ResultLists :
            ( ArchivesInFlight(requests) >= 2 /\ fetchArchiveFulfilled(r, R) )
            => ( /\ ArchiveIds(state', r.id) = MapId(R)
                 /\ state'.archives.kind = "object"
                 /\ state'.archives.map[PropertyKey(r.id)].set
                 /\ Range(R) \subseteq Range(PostItems(state'))
                 /\ \A i, j \in 1..Len(PostItems(state')) :
                        PostItems(state')[i].id = PostItems(state')[j].id => i = j
                 /\ ArchivesInFlight(requests') = 0
                        => state'.loadingArchive = False )
        /\ ( last'.step = "call" /\ last'.op = "fetchArchive"
             /\ last'.dispatched # << >> )
            => state'.loadingArchive = last'.id
        /\ state'.loadingArchive # state.loadingArchive
            => \/ state'.loadingArchive = False
               \/ /\ last'.step = "call" /\ last'.op = "fetchArchive"
                  /\ state'.loadingArchive = last'.id ]_vars

\* The 12 action types of a handler.
TypeSet(acts) == {acts[name] : name \in DOMAIN acts}

----------------------------------------------------------------------------
\* C15: a second handler constructed with another type name has 12 action
\* types, pairwise distinct like the first handler's, none of which is an
\* action type of the first; and no action the first handler dispatches
\* changes the second handler's substate.
C15_DisjointTypes ==
    /\ Cardinality(TypeSet(actions)) = Cardinality(DOMAIN actions)
    /\ Cardinality(TypeSet(otherActions)) = Cardinality(DOMAIN otherActions)
    /\ TypeSet(actions) \cap TypeSet(otherActions) = {}
    /\ other = DEFAULT_STATE

\* The fields of substate s that differ in n.
Changed(s, n) == {f \in DOMAIN s \cup DOMAIN n :
                    f \notin DOMAIN s \/ f \notin DOMAIN n \/ s[f] # n[f]}

\* The archive entries that differ between s and n.
ChangedArchives(s, n) ==
    {k \in ArchiveKeys : ArchiveIds(s, k) # ArchiveIds(n, k)
        \/ (s.archives.kind = "object" /\ s.archives.map[PropertyKey(k)].set)
            # (n.archives.kind = "object" /\ n.archives.map[PropertyKey(k)].set)}

\* The fields the transition table lists for an action type.
Listed(type) ==
    CASE type \in {actions.archiveStart, actions.archiveError} -> {"loadingArchive"}
      [] type = actions.archiveSuccess -> {"loadingArchive", "archives", "posts"}
      [] type \in {actions.getStart, actions.getError} -> {"loadingPost"}
      [] type = actions.getSuccess -> {"loadingPost", "posts"}
      [] type \in {actions.createStart, actions.updateStart,
                   actions.createError, actions.updateError} -> {"saving"}
      [] type \in {actions.createSuccess, actions.updateSuccess} -> {"saving", "posts"}
      [] OTHER -> {}

----------------------------------------------------------------------------
\* C16: whatever action the reducer is handed, the substate it leaves
\* differs from the one it was handed only in the fields the transition
\* table lists for the action's type ( none for a type that is not one of
\* the 12 ), and an archiveSuccess changes no archive entry but its own.
C16_ReducerFrame ==
    \A a \in StartActions \cup SuccessActions \cup ErrorActions
                \cup {Action(FOREIGN_TYPE, Undefined)} :
        LET n == reducer(state, a).state
        IN /\ Changed(state, n) \subseteq Listed(a.type)
           /\ ChangedArchives(state, n) \subseteq {a.id}
           /\ a.type = FOREIGN_TYPE => ~reducer(state, a).threw

\* Every flag is set, both archives are stored and posts holds two
\* entities: each field has something an action could disturb.
C16_Witness ==
    /\ state.loadingArchive # False
    /\ state.loadingPost # False
    /\ state.saving # False
    /\ \A k \in ArchiveKeys : ArchiveIds(state, k) # << >>
    /\ Len(PostItems(state)) = 2

----------------------------------------------------------------------------
\* C17: the actions a thunk invocation has dispatched are its Start
\* action alone while its request is in flight, and once the request has
\* settled the Start action followed by exactly one action, the Success
\* or the Error action of the operation, with the same id.
C17_StartThenOne ==
    LET start == [type |-> StartType(last.op), id |-> last.id]
        success == [type |-> SuccessType(last.op), id |-> last.id]
        error == [type |-> ErrorType(last.op), id |-> last.id]
    IN /\ ( last.step = "call" /\ last.dispatched # << >> )
            => last.dispatched = <<start>>
       /\ last.step = "settle"
            => last.dispatched \in {<<start, success>>, <<start, error>>}

Flags == {"loadingArchive", "loadingPost", "saving"}

----------------------------------------------------------------------------
\* C18: whenever a flag of the substate holds a value other than false,
\* an operation of the flag's kind that was started with that value as its
\* id has a request in flight.
C18_NoStaleFlag ==
    \A flag \in Flags :
        state[flag] # False
        => \E r \in BagToSet(requests) :
                FlagOf(r.op) = flag /\ r.id = state[flag]

----------------------------------------------------------------------------
\* C19: a thunk invocation that has dispatched its Start action has a
\* request in flight, whose settling dispatches the Success or the Error
\* action, for an object and for a function query alike; so whenever no
\* request is in flight all three flags are false.
C19_NoStuckFlag ==
    /\ ( last.step = "call" /\ last.dispatched # << >> )
        => \E r \in BagToSet(requests) : r.op = last.op /\ r.id = last.id
    /\ requests = EmptyBag => \A flag \in Flags : state[flag] = False

====
